---- MODULE Spec2Model ----
(***************************************************************************)
(* Constraint propagators of the Futoshiki CSP solver (propagators.py):    *)
(* prop_BT, prop_FC, prop_GAC and ord_mrv, run by a search driver over a    *)
(* constraint network (Variable / Constraint / CSP of cspbase).            *)
(***************************************************************************)
EXTENDS Integers, Sequences, FiniteSets, TLC

\* Python's None, for "no assigned value" and "no newly assigned variable".
None == 0

\* How many driver operations (assign, unassign, force a domain, restore) one run makes.
MaxDriverOps == 2

(***************************************************************************)
(* The constraint networks the driver solves.  A network lists its         *)
(* variables in enumeration order, each variable's original domain, and    *)
(* its constraints in the order they were added; a constraint is known by  *)
(* its position in that list (its identity), and has a name, an ordered    *)
(* scope and a set of satisfying tuples.                                   *)
(***************************************************************************)
NotEqual(n) == {t \in (1..n) \X (1..n) : t[1] # t[2]}

LessThan(S, T) == {t \in S \X T : t[1] < t[2]}

\* Two variables, domains {1,2,3}, one not-equal constraint.
NeqNet ==
  [ vars |-> <<1, 2>>,
    dom  |-> <<(<<1, 2, 3>>), (<<1, 2, 3>>)>>,
    cons |-> << [name |-> "A!=B", scope |-> <<1, 2>>, sat_tuples |-> NotEqual(3)] >> ]

\* Three variables, domains {1,2}, not-equal along the 3-cycle.
PigeonNet ==
  [ vars |-> <<1, 2, 3>>,
    dom  |-> <<(<<1, 2>>), (<<1, 2>>), (<<1, 2>>)>>,
    cons |-> << [name |-> "A!=B", scope |-> <<1, 2>>, sat_tuples |-> NotEqual(2)],
                [name |-> "B!=C", scope |-> <<2, 3>>, sat_tuples |-> NotEqual(2)],
                [name |-> "C!=A", scope |-> <<3, 1>>, sat_tuples |-> NotEqual(2)] >> ]

\* A unary given and two row inequalities (which share a name).
ChainNet ==
  [ vars |-> <<1, 2, 3>>,
    dom  |-> <<(<<1, 2>>), (<<2, 3>>), (<<3, 4>>)>>,
    cons |-> << [name |-> "A unary", scope |-> <<1>>, sat_tuples |-> {<<1>>}],
                [name |-> "<", scope |-> <<1, 2>>, sat_tuples |-> LessThan({1, 2}, {2, 3})],
                [name |-> "<", scope |-> <<2, 3>>, sat_tuples |-> LessThan({2, 3}, {3, 4})] >> ]

Networks == <<NeqNet, PigeonNet, ChainNet>>

VARIABLES
  net,              \* which network the driver is solving
  curdom,           \* Variable.curdom: per variable, the present-mask over dom
  assignedValue,    \* Variable.assignedValue: per variable, a value or None
  cons,             \* CSP.cons: the network's list of all constraints
  pc,               \* where the running call stands; "idle" / "done" between calls
  prop,             \* the function called last: "BT", "FC", "GAC", "MRV" or "none"
  newVar,           \* the call's newVar argument
  cons_list,        \* prop_FC: the candidate constraints
  ci,               \* prop_FC: position of the for-loop in cons_list
  c,                \* prop_FC / prop_GAC: the constraint being processed
  x,                \* prop_FC: the single unassigned variable of c
  x_domain,         \* prop_FC: the values of x present when c was entered
  xi,               \* prop_FC: position of the for-loop in x_domain
  vals,             \* prop_FC: the scope tuple collected for c.check
  pruned_vals,      \* prop_FC: the prune list
  constraint_queue, \* prop_GAC: the worklist
  aliased,          \* prop_GAC: the worklist is the list object CSP.cons
  vi,               \* prop_GAC: position of the for-loop in c's scope
  var_idx,          \* prop_GAC: position of the for-loop over var.curdom
  pruned_count,     \* prop_GAC: absent values counted for var
  pruned_all,       \* prop_GAC: the prune list
  ret,              \* the returned pair (ok, prune list)
  mrv,              \* the variable ord_mrv returned, or None
  entry,            \* masks, assignments and constraints at call entry
  everQueued,       \* prop_GAC: the constraints that have been on the worklist
  dequeued,         \* prop_GAC: the constraints the call has dequeued
  pruneCount,       \* per (variable, index): prunes since its last restore (up to 2)
  restored,         \* the (variable, value) pairs the driver has restored
  pruneLog,         \* the prune_value calls of the current call, in order
  ops,              \* driver operations made so far
  futo_grid,        \* the Futoshiki grid handed to the model builders
  model_1,          \* the constraints of the CSP futoshiki_csp_model_1 returned
  model_2,          \* the constraints of the CSP futoshiki_csp_model_2 returned
  built             \* which of the two builders have run

vars == <<net, curdom, assignedValue, cons, pc, prop, newVar, cons_list, ci, c, x,
          x_domain, xi, vals, pruned_vals, constraint_queue, aliased, vi, var_idx,
          pruned_count, pruned_all, ret, mrv, entry, everQueued, dequeued, pruneCount,
          restored, pruneLog, ops, futo_grid, model_1, model_2, built>>

\* The state of the solver.
propVars == <<net, curdom, assignedValue, cons, pc, prop, newVar, cons_list, ci, c, x,
              x_domain, xi, vals, pruned_vals, constraint_queue, aliased, vi, var_idx,
              pruned_count, pruned_all, ret, mrv, entry, everQueued, dequeued, pruneCount,
              restored, pruneLog, ops>>

\* The state of the model builders.
futoVars == <<futo_grid, model_1, model_2, built>>

Vars == 1..Len(Networks[net].vars)

dom(v) == Networks[net].dom[v]

AllCons == Networks[net].cons

Range(s) == {s[i] : i \in 1..Len(s)}

(***************************************************************************)
(* Variable                                                                *)
(***************************************************************************)
domain_size(v) == Len(dom(v))

value_index(v, val) == CHOOSE i \in 1..Len(dom(v)) : dom(v)[i] = val

is_assigned(asg, v) == asg[v] # None

get_assigned_value(asg, v) == asg[v]

in_cur_domain(cd, asg, v, val) ==
  IF val \notin Range(dom(v)) THEN FALSE
  ELSE IF is_assigned(asg, v) THEN val = asg[v]
  ELSE cd[v][value_index(v, val)]

\* The subsequence of s whose positions satisfy the mask.
RECURSIVE Masked(_, _)
Masked(s, mask) ==
  IF s = <<>> THEN <<>>
  ELSE (IF Head(mask) THEN <<Head(s)>> ELSE <<>>) \o Masked(Tail(s), Tail(mask))

cur_domain(cd, asg, v) ==
  IF is_assigned(asg, v) THEN <<asg[v]>> ELSE Masked(dom(v), cd[v])

cur_domain_size(cd, asg, v) ==
  IF is_assigned(asg, v) THEN 1 ELSE Cardinality({i \in 1..Len(cd[v]) : cd[v][i]})

prune_value(cd, v, val) == [cd EXCEPT ![v][value_index(v, val)] = FALSE]

unprune_value(cd, v, val) == [cd EXCEPT ![v][value_index(v, val)] = TRUE]

assign(cd, asg, v, val) ==
  IF is_assigned(asg, v) \/ ~in_cur_domain(cd, asg, v, val) THEN asg
  ELSE [asg EXCEPT ![v] = val]

unassign(asg, v) == [asg EXCEPT ![v] = None]

(***************************************************************************)
(* Constraint (k is the constraint's identity)                             *)
(***************************************************************************)
get_scope(k) == AllCons[k].scope

name(k) == AllCons[k].name

check(k, t) == t \in AllCons[k].sat_tuples

RECURSIVE SelectUnasgn(_, _)
SelectUnasgn(asg, s) ==
  IF s = <<>> THEN <<>>
  ELSE (IF is_assigned(asg, Head(s)) THEN <<>> ELSE <<Head(s)>>) \o SelectUnasgn(asg, Tail(s))

get_unasgn_vars(asg, k) == SelectUnasgn(asg, get_scope(k))

get_n_unasgn(asg, k) == Len(get_unasgn_vars(asg, k))

tuple_is_valid(cd, asg, k, t) ==
  \A i \in 1..Len(get_scope(k)) : in_cur_domain(cd, asg, get_scope(k)[i], t[i])

has_support(cd, asg, k, v, val) ==
  \E t \in AllCons[k].sat_tuples :
    /\ \E i \in 1..Len(get_scope(k)) : get_scope(k)[i] = v /\ t[i] = val
    /\ tuple_is_valid(cd, asg, k, t)

(***************************************************************************)
(* CSP                                                                     *)
(***************************************************************************)
\* The list object self.cons itself, not a copy.
get_all_cons == cons

RECURSIVE ConsWith(_, _, _)
ConsWith(v, k, n) ==
  IF k > n THEN <<>>
  ELSE (IF v \in Range(get_scope(k)) THEN <<k>> ELSE <<>>) \o ConsWith(v, k + 1, n)

\* A fresh list of the constraints whose scope holds v, in the order added.
get_cons_with_var(v) == ConsWith(v, 1, Len(AllCons))

get_all_unasgn_vars(asg) == SelectUnasgn(asg, Networks[net].vars)

\* The assigned values of a scope, in scope order.
ScopeValues(asg, k) == [i \in 1..Len(get_scope(k)) |-> get_assigned_value(asg, get_scope(k)[i])]

(***************************************************************************)
(* State after construction, and the bookkeeping shared by the actions     *)
(***************************************************************************)
Snapshot(cd, asg, cs) == [curdom |-> cd, assignedValue |-> asg, cons |-> cs]

NoReturn == [ok |-> TRUE, pruned |-> <<>>]

PropagatorsInit ==
  /\ net \in 1..Len(Networks)
  /\ curdom = [v \in Vars |-> [i \in 1..Len(dom(v)) |-> TRUE]]
  /\ assignedValue = [v \in Vars |-> None]
  /\ cons = [k \in 1..Len(AllCons) |-> k]
  /\ pc = "idle" /\ prop = "none" /\ newVar = None
  /\ cons_list = <<>> /\ ci = 0 /\ c = 0 /\ x = 0 /\ x_domain = <<>> /\ xi = 0
  /\ vals = <<>> /\ pruned_vals = <<>>
  /\ constraint_queue = <<>> /\ aliased = FALSE /\ vi = 0 /\ var_idx = 0
  /\ pruned_count = 0 /\ pruned_all = <<>>
  /\ ret = NoReturn /\ mrv = None
  /\ entry = Snapshot(curdom, assignedValue, cons)
  /\ everQueued = {} /\ dequeued = {}
  /\ pruneCount = [v \in Vars |-> [i \in 1..Len(dom(v)) |-> 0]]
  /\ restored = {}
  /\ pruneLog = <<>>
  /\ ops = 0

\* The solver is given a network that is already built.
Init ==
  /\ PropagatorsInit
  /\ futo_grid = <<>> /\ model_1 = <<>> /\ model_2 = <<>> /\ built = {}

\* No call is running: the driver may act or call.
Between == pc \in {"idle", "done"}

FCLocalsCleared ==
  /\ cons_list' = <<>> /\ ci' = 0 /\ x' = 0 /\ x_domain' = <<>> /\ xi' = 0
  /\ vals' = <<>> /\ pruned_vals' = <<>>

GACLocalsCleared ==
  /\ constraint_queue' = <<>> /\ aliased' = FALSE /\ vi' = 0 /\ var_idx' = 0
  /\ pruned_count' = 0 /\ pruned_all' = <<>>

\* One more prune of (v, val) since its last restore (counted up to 2).
Counted(pcnt, v, val) ==
  [pcnt EXCEPT ![v][value_index(v, val)] = IF @ < 2 THEN @ + 1 ELSE 2]

\* A driver operation leaves no call state behind.
DriverStep ==
  /\ Between
  /\ ops < MaxDriverOps
  /\ ops' = ops + 1
  /\ pc' = "idle" /\ prop' = "none" /\ newVar' = None /\ c' = 0
  /\ FCLocalsCleared /\ GACLocalsCleared
  /\ ret' = NoReturn /\ mrv' = None /\ everQueued' = {} /\ dequeued' = {}
  /\ pruneLog' = <<>>
  /\ UNCHANGED <<net, cons>>
  /\ UNCHANGED futoVars
  /\ entry' = Snapshot(curdom', assignedValue', cons')

(***************************************************************************)
(* The search driver: Variable.assign / unassign / prune_value /           *)
(* unprune_value called from outside the propagators                       *)
(***************************************************************************)
DriverAssign ==
  \E v \in Vars : \E val \in Range(dom(v)) :
    /\ ~is_assigned(assignedValue, v)
    /\ in_cur_domain(curdom, assignedValue, v, val)
    /\ assignedValue' = assign(curdom, assignedValue, v, val)
    /\ UNCHANGED <<curdom, pruneCount, restored>>
    /\ DriverStep

DriverUnassign ==
  \E v \in Vars :
    /\ is_assigned(assignedValue, v)
    /\ assignedValue' = unassign(assignedValue, v)
    /\ UNCHANGED <<curdom, pruneCount, restored>>
    /\ DriverStep

\* The driver forces a domain from outside: it prunes some present values of v.
DriverPrune ==
  \E v \in Vars : \E S \in SUBSET {i \in 1..Len(dom(v)) : curdom[v][i]} :
    /\ S # {}
    /\ curdom' = [curdom EXCEPT ![v] = [i \in 1..Len(dom(v)) |-> @[i] /\ i \notin S]]
    /\ pruneCount' = [pruneCount EXCEPT ![v] =
                        [i \in 1..Len(dom(v)) |-> IF i \in S THEN 1 ELSE @[i]]]
    /\ UNCHANGED <<assignedValue, restored>>
    /\ DriverStep

\* The driver restores a pruned value.
DriverRestore ==
  \E v \in Vars : \E val \in Range(dom(v)) :
    /\ ~curdom[v][value_index(v, val)]
    /\ curdom' = unprune_value(curdom, v, val)
    /\ pruneCount' = [pruneCount EXCEPT ![v][value_index(v, val)] = 0]
    /\ restored' = restored \cup {<<v, val>>}
    /\ UNCHANGED assignedValue
    /\ DriverStep

\* What the driver may pass as newVar: nothing, or an assigned variable.
Arguments == {None} \cup {v \in Vars : is_assigned(assignedValue, v)}

\* A call begins: its arguments and the state it starts from are recorded.
CallBegins(f, nv) ==
  /\ Between
  /\ nv \in Arguments
  /\ prop' = f /\ newVar' = nv /\ mrv' = None
  /\ entry' = Snapshot(curdom, assignedValue, cons)
  /\ pruneLog' = <<>>
  /\ UNCHANGED <<net, ops, restored>>
  /\ UNCHANGED futoVars

\* A call returns (ok, list).
Returns(ok, list) ==
  /\ pc' = "done"
  /\ ret' = [ok |-> ok, pruned |-> list]
  /\ c' = 0
  /\ FCLocalsCleared /\ GACLocalsCleared
  /\ UNCHANGED <<net, prop, newVar, mrv, entry, ops, restored>>
  /\ UNCHANGED futoVars

(***************************************************************************)
(* prop_BT                                                                 *)
(***************************************************************************)
\* A variant that also checks constraints with unassigned variables.
BT_FailsUnassigned(asg, k) == ~check(k, ScopeValues(asg, k))

\* Lines 82-88: k is fully assigned and its assigned tuple fails the check.
BT_Fails(asg, k) ==
  /\ get_n_unasgn(asg, k) = 0
  /\ ~check(k, ScopeValues(asg, k))

prop_BT_ok(asg, nv) ==
  IF nv = None THEN TRUE
  ELSE \A k \in Range(get_cons_with_var(nv)) : ~BT_Fails(asg, k)

prop_BT ==
  \E nv \in Arguments :
    /\ CallBegins("BT", nv)
    /\ pc' = "done"
    /\ ret' = [ok |-> prop_BT_ok(assignedValue, nv), pruned |-> <<>>]
    /\ c' = 0 /\ everQueued' = {} /\ dequeued' = {}
    /\ FCLocalsCleared /\ GACLocalsCleared
    /\ UNCHANGED <<curdom, assignedValue, cons, pruneCount>>

(***************************************************************************)
(* ord_mrv                                                                 *)
(***************************************************************************)
\* A variant that lets a later variable of equal size win.
MrvBetterOrEqual(size, curr_min, curr_var) ==
  curr_var = None \/ size <= curr_min

\* Line 194, with curr_min = infinity while curr_var is None.
MrvBetter(size, curr_min, curr_var) ==
  curr_var = None \/ size < curr_min

RECURSIVE MrvScan(_, _, _, _, _)
MrvScan(cd, asg, s, curr_min, curr_var) ==
  IF s = <<>> THEN curr_var
  ELSE IF MrvBetter(cur_domain_size(cd, asg, Head(s)), curr_min, curr_var)
       THEN MrvScan(cd, asg, Tail(s), cur_domain_size(cd, asg, Head(s)), Head(s))
       ELSE MrvScan(cd, asg, Tail(s), curr_min, curr_var)

ord_mrv_result(cd, asg) == MrvScan(cd, asg, get_all_unasgn_vars(asg), 0, None)

ord_mrv ==
  /\ Between
  /\ prop' = "MRV" /\ newVar' = None
  /\ pc' = "done"
  /\ mrv' = ord_mrv_result(curdom, assignedValue)
  /\ ret' = NoReturn /\ everQueued' = {} /\ dequeued' = {} /\ c' = 0
  /\ entry' = Snapshot(curdom, assignedValue, cons)
  /\ pruneLog' = <<>>
  /\ FCLocalsCleared /\ GACLocalsCleared
  /\ UNCHANGED <<net, ops, curdom, assignedValue, cons, pruneCount, restored>>
  /\ UNCHANGED futoVars

(***************************************************************************)
(* prop_FC                                                                 *)
(***************************************************************************)
\* A call in progress keeps its arguments and its entry record.
InCall ==
  /\ UNCHANGED <<net, prop, newVar, ret, mrv, entry, ops, restored>>
  /\ UNCHANGED futoVars

\* Lines 95-98.
FC_Candidates(nv) ==
  IF nv # None THEN get_cons_with_var(nv) ELSE get_all_cons

\* A variant that takes every value of the original domain.
FC_x_domainAll(cd, v) == dom(v)

\* Lines 105-108: the values of v whose mask bit is set.
FC_x_domain(cd, v) == Masked(dom(v), cd[v])

\* Line 111: the list returned when x has no value left on entry to c.
FC_EntryList(pv) == <<>>

\* A variant with the test inverted.
FC_PrunesSatisfying(k, t) == check(k, t)

\* Line 119: the tuple fails the constraint.
FC_Prunes(k, t) == ~check(k, t)

\* A variant that never tests for an emptied domain.
FC_NeverDead(cd, asg, v) == FALSE

\* Line 123.
FC_DeadAfterPrune(cd, asg, v) == cur_domain(cd, asg, v) = <<>>

\* A variant that leaves x assigned.
FC_KeepsAssigned(asg, v) == asg

\* Line 118: x is unassigned once the tuple has been collected.
FC_AfterTuple(asg, v) == unassign(asg, v)

FC_Begin ==
  \E nv \in Arguments :
    /\ CallBegins("FC", nv)
    /\ cons_list' = FC_Candidates(nv)
    /\ pruned_vals' = <<>>
    /\ ci' = 1
    /\ pc' = "fc_cons"
    /\ ret' = NoReturn /\ everQueued' = {} /\ dequeued' = {}
    /\ c' = 0 /\ x' = 0 /\ x_domain' = <<>> /\ xi' = 0 /\ vals' = <<>>
    /\ GACLocalsCleared
    /\ UNCHANGED <<curdom, assignedValue, cons, pruneCount>>

\* Lines 102-111: the next candidate constraint, or the end of the list.
FC_NextCons ==
  /\ pc = "fc_cons"
  /\ UNCHANGED <<curdom, assignedValue, cons, pruneCount, everQueued, dequeued, pruneLog>>
  /\ IF ci > Len(cons_list)
     THEN Returns(TRUE, pruned_vals)
     ELSE LET k == cons_list[ci] IN
          IF get_n_unasgn(assignedValue, k) = 1
          THEN LET xv == get_unasgn_vars(assignedValue, k)[1] IN
               IF cur_domain(curdom, assignedValue, xv) = <<>>
               THEN Returns(FALSE, FC_EntryList(pruned_vals))
               ELSE /\ c' = k /\ x' = xv
                    /\ x_domain' = FC_x_domain(curdom, xv)
                    /\ xi' = 1
                    /\ pc' = "fc_val"
                    /\ UNCHANGED <<cons_list, ci, vals, pruned_vals>>
                    /\ UNCHANGED <<constraint_queue, aliased, vi, var_idx, pruned_count,
                                   pruned_all>>
                    /\ InCall
          ELSE /\ c' = k
               /\ ci' = ci + 1
               /\ UNCHANGED <<pc, cons_list, x, x_domain, xi, vals, pruned_vals>>
               /\ UNCHANGED <<constraint_queue, aliased, vi, var_idx, pruned_count,
                              pruned_all>>
               /\ InCall

\* Lines 112-113: the next value of x_domain is assigned to x, or c is finished.
FC_Assign ==
  /\ pc = "fc_val"
  /\ UNCHANGED <<curdom, cons, pruneCount, everQueued, dequeued, pruneLog, cons_list, c, x,
                 x_domain, vals, pruned_vals>>
  /\ UNCHANGED <<constraint_queue, aliased, vi, var_idx, pruned_count, pruned_all>>
  /\ InCall
  /\ IF xi > Len(x_domain)
     THEN /\ ci' = ci + 1
          /\ pc' = "fc_cons"
          /\ UNCHANGED <<assignedValue, xi>>
     ELSE /\ assignedValue' = assign(curdom, assignedValue, x, x_domain[xi])
          /\ pc' = "fc_scope"
          /\ UNCHANGED <<ci, xi>>

\* Lines 114-118: the scope's assigned values are collected and x is unassigned.
FC_Unassign ==
  /\ pc = "fc_scope"
  /\ vals' = ScopeValues(assignedValue, c)
  /\ assignedValue' = FC_AfterTuple(assignedValue, x)
  /\ pc' = "fc_check"
  /\ UNCHANGED <<curdom, cons, pruneCount, everQueued, dequeued, pruneLog, cons_list, ci, c,
                 x,
                 x_domain, xi, pruned_vals>>
  /\ UNCHANGED <<constraint_queue, aliased, vi, var_idx, pruned_count, pruned_all>>
  /\ InCall

\* Lines 119-125: the tuple is checked, the value pruned if it fails, and the
\* call returns failure if x has no value left.
FC_Check ==
  /\ pc = "fc_check"
  /\ LET xVal   == x_domain[xi]
         fails  == FC_Prunes(c, vals)
         cd2    == IF fails THEN prune_value(curdom, x, xVal) ELSE curdom
         pv2    == IF fails THEN Append(pruned_vals, <<x, xVal>>) ELSE pruned_vals
     IN /\ curdom' = cd2
        /\ pruneCount' = IF fails THEN Counted(pruneCount, x, xVal) ELSE pruneCount
        /\ pruneLog' = IF fails THEN Append(pruneLog, <<x, xVal>>) ELSE pruneLog
        /\ UNCHANGED <<assignedValue, cons, everQueued, dequeued>>
        /\ IF FC_DeadAfterPrune(cd2, assignedValue, x)
           THEN Returns(FALSE, pv2)
           ELSE /\ pruned_vals' = pv2
                /\ xi' = xi + 1
                /\ pc' = "fc_val"
                /\ UNCHANGED <<cons_list, ci, c, x, x_domain, vals>>
                /\ UNCHANGED <<constraint_queue, aliased, vi, var_idx, pruned_count,
                               pruned_all>>
                /\ InCall

(***************************************************************************)
(* prop_GAC                                                                *)
(***************************************************************************)
enqueue(lst, val) == Append(lst, val)

\* A variant that leaves the head on the list.
dequeueKeepsHead(lst) == <<Head(lst), lst>>

\* Lines 178-186.
dequeue(lst) == <<Head(lst), Tail(lst)>>

\* Lines 132-135.
GAC_Seed(nv) ==
  IF nv = None THEN get_all_cons ELSE get_cons_with_var(nv)

\* A variant that never puts a constraint back on the worklist.
GAC_NeverEnqueue(q, cv, k) == FALSE

\* A variant that never puts back the constraint being processed.
GAC_EnqueueUnlessCurrent(q, cv, k) ==
  cv # k /\ (cv \notin Range(q) \/ name(cv) # name(k))

\* Line 158: cv goes on the worklist q while constraint k is processed.
GAC_ShouldEnqueue(q, cv, k) ==
  cv \notin Range(q) \/ name(cv) # name(k)

\* Lines 157-159.
RECURSIVE EnqueueAll(_, _, _)
EnqueueAll(q, cws, k) ==
  IF cws = <<>> THEN q
  ELSE EnqueueAll(IF GAC_ShouldEnqueue(q, Head(cws), k) THEN enqueue(q, Head(cws)) ELSE q,
                  Tail(cws), k)

\* A variant with the test inverted.
GAC_PrunesSupported(cd, asg, k, v, val) == has_support(cd, asg, k, v, val)

\* Line 151: the value is pruned.
GAC_Prunes(cd, asg, k, v, val) == ~has_support(cd, asg, k, v, val)

\* A variant that is off by one.
GAC_DeadEndOneLeft(count, v) == count >= domain_size(v) - 1

\* Line 163.
GAC_DeadEnd(count, v) == count = domain_size(v)

\* A variant that drops the prune list on failure.
GAC_FailListEmpty(pa) == <<>>

\* Line 165: the list returned with failure.
GAC_FailList(pa) == pa

GAC_Begin ==
  \E nv \in Arguments :
    /\ CallBegins("GAC", nv)
    /\ constraint_queue' = GAC_Seed(nv)
    /\ aliased' = (nv = None)
    /\ pruned_all' = <<>>
    /\ everQueued' = Range(GAC_Seed(nv))
    /\ dequeued' = {}
    /\ pc' = "gac_while"
    /\ ret' = NoReturn
    /\ c' = 0 /\ vi' = 0 /\ var_idx' = 0 /\ pruned_count' = 0
    /\ FCLocalsCleared
    /\ UNCHANGED <<curdom, assignedValue, cons, pruneCount>>

\* Lines 138-140: the loop test and the dequeue.
GAC_While ==
  /\ pc = "gac_while"
  /\ UNCHANGED <<curdom, assignedValue, pruneCount, everQueued, pruneLog>>
  /\ IF constraint_queue = <<>>
     THEN Returns(TRUE, pruned_all) /\ UNCHANGED <<cons, dequeued>>
     ELSE /\ c' = dequeue(constraint_queue)[1]
          /\ dequeued' = dequeued \cup {c'}
          /\ constraint_queue' = dequeue(constraint_queue)[2]
          /\ cons' = IF aliased THEN constraint_queue' ELSE cons
          /\ vi' = 1
          /\ pc' = "gac_var"
          /\ UNCHANGED <<aliased, var_idx, pruned_count, pruned_all>>
          /\ UNCHANGED <<cons_list, ci, x, x_domain, xi, vals, pruned_vals>>
          /\ InCall

\* Lines 141-146: the next scope variable; an assigned one is skipped.
GAC_Var ==
  /\ pc = "gac_var"
  /\ UNCHANGED <<curdom, assignedValue, cons, pruneCount, everQueued, dequeued, pruneLog>>
  /\ UNCHANGED <<c, constraint_queue, aliased, pruned_all>>
  /\ UNCHANGED <<cons_list, ci, x, x_domain, xi, vals, pruned_vals>>
  /\ InCall
  /\ IF vi > Len(get_scope(c))
     THEN pc' = "gac_while" /\ UNCHANGED <<vi, var_idx, pruned_count>>
     ELSE IF is_assigned(assignedValue, get_scope(c)[vi])
          THEN vi' = vi + 1 /\ UNCHANGED <<pc, var_idx, pruned_count>>
          ELSE /\ pruned_count' = 0
               /\ var_idx' = 1
               /\ pc' = "gac_val"
               /\ UNCHANGED vi

\* Lines 147-162: one position of var's mask is examined.
GAC_Val ==
  /\ pc = "gac_val"
  /\ var_idx <= Len(curdom[get_scope(c)[vi]])
  /\ LET var == get_scope(c)[vi]
         val == dom(var)[var_idx]
         present == curdom[var][var_idx]
         prunes == /\ present
                   /\ <<var, val>> \notin Range(pruned_all)
                   /\ GAC_Prunes(curdom, assignedValue, c, var, val)
         q2 == IF prunes THEN EnqueueAll(constraint_queue, get_cons_with_var(var), c)
               ELSE constraint_queue
     IN /\ curdom' = IF prunes THEN prune_value(curdom, var, val) ELSE curdom
        /\ pruneCount' = IF prunes THEN Counted(pruneCount, var, val) ELSE pruneCount
        /\ pruneLog' = IF prunes THEN Append(pruneLog, <<var, val>>) ELSE pruneLog
        /\ pruned_all' = IF prunes THEN Append(pruned_all, <<var, val>>) ELSE pruned_all
        /\ pruned_count' = IF prunes \/ ~present THEN pruned_count + 1 ELSE pruned_count
        /\ constraint_queue' = q2
        /\ cons' = IF aliased THEN q2 ELSE cons
        /\ everQueued' = everQueued \cup Range(q2)
        /\ var_idx' = var_idx + 1
  /\ UNCHANGED <<assignedValue, pc, c, aliased, vi, dequeued>>
  /\ UNCHANGED <<cons_list, ci, x, x_domain, xi, vals, pruned_vals>>
  /\ InCall

\* Lines 163-165: after the scan of var's mask, the dead-end test.
GAC_EndScan ==
  /\ pc = "gac_val"
  /\ var_idx > Len(curdom[get_scope(c)[vi]])
  /\ UNCHANGED <<curdom, assignedValue, cons, pruneCount, everQueued, dequeued, pruneLog>>
  /\ IF GAC_DeadEnd(pruned_count, get_scope(c)[vi])
     THEN Returns(FALSE, GAC_FailList(pruned_all))
     ELSE /\ vi' = vi + 1
          /\ pc' = "gac_var"
          /\ UNCHANGED <<c, constraint_queue, aliased, var_idx, pruned_count, pruned_all>>
          /\ UNCHANGED <<cons_list, ci, x, x_domain, xi, vals, pruned_vals>>
          /\ InCall

(***************************************************************************)
(* The program: the driver acts and calls; a call runs to completion       *)
(***************************************************************************)
Next ==
  \/ DriverAssign
  \/ DriverUnassign
  \/ DriverPrune
  \/ DriverRestore
  \/ prop_BT
  \/ ord_mrv
  \/ FC_Begin
  \/ FC_NextCons
  \/ FC_Assign
  \/ FC_Unassign
  \/ FC_Check
  \/ GAC_Begin
  \/ GAC_While
  \/ GAC_Var
  \/ GAC_Val
  \/ GAC_EndScan

Spec == Init /\ [][Next]_vars

\* The steps of a running call.
CallStep ==
  \/ FC_NextCons
  \/ FC_Assign
  \/ FC_Unassign
  \/ FC_Check
  \/ GAC_While
  \/ GAC_Var
  \/ GAC_Val
  \/ GAC_EndScan

\* A propagator call is synchronous: once begun, it keeps taking steps.
FairSpec == Spec /\ WF_vars(CallStep)

(***************************************************************************)
(* futoshiki_csp.py: the two model builders                                *)
(***************************************************************************)
\* The board sizes the builders are run on.
BoardSizes == {1, 2, 3}

\* How many cells and inequality slots of a grid are filled in, at most.
MaxMarks == 1

\* The positions (row, item) of the rows of an n-board: odd items are cells,
\* even items are the inequality slots between them.
GridPositions(n) == (1..n) \X (1..(2 * n - 1))

\* The ways to fill in at most MaxMarks positions: a cell with a value of 1..n,
\* a slot with "<" (1) or ">" (2).
Marks(n) ==
  UNION {{f \in [S -> 1..n] : \A p \in S : p[2] % 2 = 0 => f[p] <= 2} :
           S \in {T \in SUBSET GridPositions(n) : Cardinality(T) <= MaxMarks}}

\* The grid of an n-board with the marks f: 0 for an empty cell, "." for an
\* empty slot.
Grid(n, f) ==
  [row_idx \in 1..n |->
     [j \in 1..(2 * n - 1) |->
        IF j % 2 = 1
        THEN (IF <<row_idx, j>> \in DOMAIN f THEN f[<<row_idx, j>>] ELSE 0)
        ELSE (IF <<row_idx, j>> \in DOMAIN f
              THEN (IF f[<<row_idx, j>>] = 1 THEN "<" ELSE ">")
              ELSE ".")]]

\* The well-formed grids the builders are run on.
Grids == UNION {{Grid(n, f) : f \in Marks(n)} : n \in BoardSizes}

\* Lines 36 and 134.
board_size(g) == (Len(g[1]) + 1) \div 2

\* vars_all_2d[row_idx][col_idx], rows and columns counted from 1.
Cell(row_idx, col_idx) == <<row_idx, col_idx>>

\* list(range(1, board_size + 1)).
pos_vals(n) == [i \in 1..n |-> i]

\* The list s without its i-th element.
Without(s, i) == SubSeq(s, 1, i - 1) \o SubSeq(s, i + 1, Len(s))

\* itertools.permutations(pool, row_idx): the tuples of row_idx elements taken from
\* distinct positions of pool.
RECURSIVE permutations(_, _)
permutations(pool, row_idx) ==
  IF row_idx = 0 THEN {<<>>}
  ELSE UNION {{<<pool[i]>> \o t : t \in permutations(Without(pool, i), row_idx - 1)} :
                i \in 1..Len(pool)}

\* The lists f[1], ..., f[k] appended one after the other, as nested loops
\* append the constraints they make.
RECURSIVE Concat(_, _)
Concat(f, k) == IF k = 0 THEN <<>> ELSE Concat(f, k - 1) \o f[k]

\* Lines 47-58 (145-156): a given cell gets a unary constraint.
GivenCons(g, row_idx, col_idx) ==
  LET item == g[row_idx][2 * col_idx - 1] IN
  IF item # 0
  THEN << [name |-> <<row_idx, col_idx, "unary">>,
           scope |-> <<Cell(row_idx, col_idx)>>,
           sat_tuples |-> {<<item>>}] >>
  ELSE <<>>

\* Lines 40-64 (138-162).
cons_unary(g) ==
  LET n == board_size(g) IN
  Concat([row_idx \in 1..n |-> Concat([col_idx \in 1..n |-> GivenCons(g, row_idx, col_idx)], n)], n)

\* Lines 78-81 (176-179).
GreaterTuples(n) == UNION {{<<j, i>> : j \in (i + 1)..n} : i \in 1..(n - 1)}

\* Lines 84-87 (182-185).
LessTuples(n) == UNION {{<<i, j>> : j \in (i + 1)..n} : i \in 1..(n - 1)}

\* Lines 69-91 (167-189): a filled slot constrains the cells left and right of it.
InequalityCons(g, row_idx, col_idx) ==
  LET item == g[row_idx][2 * col_idx] IN
  IF item # "."
  THEN << [name |-> <<row_idx, col_idx, item>>,
           scope |-> <<Cell(row_idx, col_idx), Cell(row_idx, col_idx + 1)>>,
           sat_tuples |-> IF item = ">" THEN GreaterTuples(board_size(g))
                          ELSE LessTuples(board_size(g))] >>
  ELSE <<>>

\* Lines 67-91 (165-189).
inequality_cons(g) ==
  LET n == board_size(g) IN
  Concat([row_idx \in 1..n |->
    Concat([col_idx \in 1..(n - 1) |-> InequalityCons(g, row_idx, col_idx)], n - 1)], n)

\* Lines 103-108 and 118-123: a binary not-equal constraint.
NotEqualCons(n, scope) ==
  [name |-> <<scope[1], "not equal", scope[2]>>,
   scope |-> scope,
   sat_tuples |-> permutations(pos_vals(n), 2)]

\* Lines 97-103: the scope of a pair of a row.
M1_RowPair(row, c1, c2) == <<Cell(row, c1), Cell(row, c2)>>

\* A variant that indexes the board by (column, row).
M1_ColumnPairTransposed(col, r1, r2) == <<Cell(col, r1), Cell(col, r2)>>

\* Lines 112-118: the scope of a pair of a column.
M1_ColumnPair(col, r1, r2) == <<Cell(r1, col), Cell(r2, col)>>

\* Lines 96-108.
M1_RowCons(n) ==
  Concat([row \in 1..n |->
    Concat([c1 \in 1..n |->
      Concat([c2 \in 1..n |->
        IF c1 # c2 THEN <<NotEqualCons(n, M1_RowPair(row, c1, c2))>> ELSE <<>>], n)], n)], n)

\* Lines 111-123.
M1_ColumnCons(n) ==
  Concat([col \in 1..n |->
    Concat([r1 \in 1..n |->
      Concat([r2 \in 1..n |->
        IF r1 # r2 THEN <<NotEqualCons(n, M1_ColumnPair(col, r1, r2))>> ELSE <<>>], n)], n)], n)

\* The constraints of the CSP futoshiki_csp_model_1 returns, in the order added.
Model1Constraints(g) ==
  cons_unary(g) \o inequality_cons(g) \o M1_RowCons(board_size(g)) \o M1_ColumnCons(board_size(g))

\* Lines 197-202 and 210-215: an all-different constraint.
AllDiffCons(n, kind, idx, scope) ==
  [name |-> <<kind, idx>>, scope |-> scope, sat_tuples |-> permutations(pos_vals(n), n)]

\* Lines 192-203.
M2_RowCons(n) ==
  [row \in 1..n |-> AllDiffCons(n, "all-diff row", row, [col_idx \in 1..n |-> Cell(row, col_idx)])]

\* Lines 206-216.
M2_ColumnCons(n) ==
  [col \in 1..n |->
     AllDiffCons(n, "all-diff column", col, [row_idx \in 1..n |-> Cell(row_idx, col)])]

\* The constraints of the CSP futoshiki_csp_model_2 returns, in the order added.
Model2Constraints(g) ==
  cons_unary(g) \o inequality_cons(g) \o M2_RowCons(board_size(g)) \o M2_ColumnCons(board_size(g))

futoshiki_csp_model_1 ==
  /\ 1 \notin built
  /\ model_1' = Model1Constraints(futo_grid)
  /\ built' = built \cup {1}
  /\ UNCHANGED <<futo_grid, model_2>>
  /\ UNCHANGED propVars

futoshiki_csp_model_2 ==
  /\ 2 \notin built
  /\ model_2' = Model2Constraints(futo_grid)
  /\ built' = built \cup {2}
  /\ UNCHANGED <<futo_grid, model_1>>
  /\ UNCHANGED propVars

\* A grid is given and neither builder has run.
ModelInit ==
  /\ PropagatorsInit
  /\ net = 1
  /\ futo_grid \in Grids
  /\ model_1 = <<>> /\ model_2 = <<>> /\ built = {}

ModelNext ==
  \/ futoshiki_csp_model_1
  \/ futoshiki_csp_model_2

ModelSpec == ModelInit /\ [][ModelNext]_vars

(***************************************************************************)
(* Properties                                                              *)
(***************************************************************************)
Done(f) == pc = "done" /\ prop = f

\* The network's constraints as constructed, by identity.
FullCons == [k \in 1..Len(AllCons) |-> k]

FullMasks == [v \in Vars |-> [i \in 1..Len(dom(v)) |-> TRUE]]

\* The candidate constraints of the call that has returned.
Candidates == IF newVar # None THEN Range(get_cons_with_var(newVar)) ELSE Range(entry.cons)

NoDuplicates(s) == \A i, j \in 1..Len(s) : s[i] = s[j] => i = j

\* The masks after restoring the pairs of list in reverse order.
RECURSIVE RestoreAll(_, _)
RestoreAll(cd, list) ==
  IF list = <<>> THEN cd
  ELSE RestoreAll(unprune_value(cd, list[Len(list)][1], list[Len(list)][2]),
                  SubSeq(list, 1, Len(list) - 1))

\* The (variable, value) pairs whose mask bit the call turned from present to absent.
Flipped ==
  UNION {{<<v, dom(v)[i]>> : i \in {j \in 1..Len(dom(v)) : entry.curdom[v][j] /\ ~curdom[v][j]}} :
           v \in Vars}

\* C1: GAC soundness.  When prop_GAC returns success, every value present in the
\* current domain of an unassigned scope variable of a constraint that was on
\* the worklist during the call has support under that constraint.
GACSound ==
  (Done("GAC") /\ ret.ok) =>
    \A k \in everQueued : \A v \in Range(get_scope(k)) :
      ~is_assigned(assignedValue, v) =>
        \A i \in 1..Len(dom(v)) :
          curdom[v][i] => has_support(curdom, assignedValue, k, v, dom(v)[i])

\* A successful GAC call on the chain network that pruned along two constraints.
GACSoundWitness ==
  /\ Done("GAC") /\ ret.ok /\ net = 3
  /\ Len(ret.pruned) >= 2
  /\ ret.pruned[1][1] # ret.pruned[2][1]
  /\ \E v \in Vars : ~is_assigned(assignedValue, v) /\ \E i \in 1..Len(dom(v)) : curdom[v][i]

\* The pairs a forward-checking call must prune: x is the single unassigned
\* variable of a candidate constraint, val was present at entry, and the scope
\* tuple with val for x and the assigned values elsewhere is not satisfying.
Falsified ==
  UNION {{<<v, val>> : val \in
            {w \in Range(dom(v)) :
               /\ entry.curdom[v][value_index(v, w)]
               /\ \E k \in Candidates :
                    /\ get_unasgn_vars(entry.assignedValue, k) = <<v>>
                    /\ [i \in 1..Len(get_scope(k)) |->
                          IF get_scope(k)[i] = v THEN w
                          ELSE entry.assignedValue[get_scope(k)[i]]]
                         \notin AllCons[k].sat_tuples}} :
           v \in Vars}

\* The entry state of the two-variable scenario: A assigned 2, B unassigned, the
\* call made for A (or for no variable, over the network's constraints).
NeqScenario ==
  /\ net = 1
  /\ entry.assignedValue = <<2, None>>
  /\ newVar = 1 \/ (newVar = None /\ entry.cons = FullCons)

\* C2: forward checking prunes exactly the falsifying values.  In a prop_FC call
\* that returns success the pairs pruned, and the pairs listed, are exactly the
\* falsified ones; no other mask bit changes.  In the two-variable not-equal
\* network, A = 2 gives success, the list [(B,2)] and B's domain {1,3}.
FCPrunesExactly ==
  /\ (Done("FC") /\ ret.ok) =>
       /\ Flipped = Falsified
       /\ Range(ret.pruned) = Falsified
       /\ \A v \in Vars : \A i \in 1..Len(dom(v)) : curdom[v][i] => entry.curdom[v][i]
  /\ (Done("FC") /\ NeqScenario /\ entry.curdom[2] = <<TRUE, TRUE, TRUE>>) =>
       /\ ret = [ok |-> TRUE, pruned |-> << <<2, 2>> >>]
       /\ cur_domain(curdom, assignedValue, 2) = <<1, 3>>

\* The two-variable scenario has run: (B,2) was pruned and reported.
FCPrunesExactlyWitness ==
  /\ Done("FC") /\ NeqScenario /\ entry.curdom[2] = <<TRUE, TRUE, TRUE>>
  /\ ret.ok /\ Falsified = {<<2, 2>>}

\* C3: prop_FC never loses a prune record.  On every return the list holds the
\* pairs the call pruned, in the order pruned, and restoring them in reverse
\* order gives the masks of call entry.
FCKeepsPruneRecord ==
  Done("FC") =>
    /\ ret.pruned = pruneLog
    /\ RestoreAll(curdom, ret.pruned) = entry.curdom

\* C4: prop_GAC never loses a prune record.  On every return the list is the
\* sequence of pairs whose mask bit the call turned off, in the order pruned,
\* with no other entry, and restoring them in reverse order gives the masks of
\* call entry.
GACKeepsPruneRecord ==
  Done("GAC") =>
    /\ ret.pruned = pruneLog
    /\ NoDuplicates(ret.pruned)
    /\ Range(ret.pruned) = Flipped
    /\ RestoreAll(curdom, ret.pruned) = entry.curdom

\* A GAC call that failed after pruning from two variables.
GACKeepsPruneRecordWitness ==
  /\ Done("GAC") /\ ~ret.ok
  /\ Len(ret.pruned) >= 2
  /\ \E i, j \in 1..Len(ret.pruned) : ret.pruned[i][1] # ret.pruned[j][1]

\* The mask of v has no value left.
Emptied(cd, v) == \A i \in 1..Len(dom(v)) : ~cd[v][i]

\* C5: no double-prune.  Whatever the driver and the propagators have done, no
\* (variable, value) pair has been pruned twice since it was last restored (so
\* every prune met a present value), and no prune list holds a pair twice.
NoDoublePrune ==
  /\ \A v \in Vars : \A i \in 1..Len(dom(v)) : pruneCount[v][i] <= 1
  /\ NoDuplicates(pruneLog)
  /\ NoDuplicates(pruned_vals)
  /\ NoDuplicates(pruned_all)
  /\ NoDuplicates(ret.pruned)

\* A call has pruned a pair that an earlier restore had made present again.
NoDoublePruneWitness ==
  /\ pc = "done" /\ prop \in {"FC", "GAC"}
  /\ \E p \in Range(ret.pruned) : p \in restored /\ pruneCount[p[1]][value_index(p[1], p[2])] = 1

\* C6: dead-end exactness for forward checking.  prop_FC reports failure if and
\* only if, after its pruning, an unassigned scope variable of a candidate
\* constraint has an empty current domain or a fully assigned candidate
\* constraint is violated.
FCDeadEndExact ==
  Done("FC") =>
    (~ret.ok <=>
       \/ \E k \in Candidates : \E v \in Range(get_scope(k)) :
            ~is_assigned(assignedValue, v) /\ Emptied(curdom, v)
       \/ \E k \in Candidates :
            get_n_unasgn(assignedValue, k) = 0 /\ ~check(k, ScopeValues(assignedValue, k)))

\* C7: plain backtracking.  prop_BT changes no mask and returns an empty list; it
\* succeeds when no variable is given, and otherwise fails if and only if a
\* constraint that references the variable and has every scope variable
\* assigned is not satisfied by the assigned values.
BTContract ==
  Done("BT") =>
    /\ curdom = entry.curdom
    /\ ret.pruned = <<>>
    /\ newVar = None => ret.ok
    /\ newVar # None =>
         (~ret.ok <=>
            \E k \in 1..Len(AllCons) :
              /\ newVar \in Range(get_scope(k))
              /\ \A v \in Range(get_scope(k)) : assignedValue[v] # None
              /\ [i \in 1..Len(get_scope(k)) |-> assignedValue[get_scope(k)[i]]]
                   \notin AllCons[k].sat_tuples)

\* prop_BT failed on a violated, fully assigned constraint of the pigeonhole
\* network while another constraint of the variable was not yet fully assigned.
BTContractWitness ==
  /\ Done("BT") /\ newVar # None /\ ~ret.ok /\ net = 2
  /\ \E k \in Range(get_cons_with_var(newVar)) : get_n_unasgn(assignedValue, k) = 1

\* C8: forward checking fails as soon as a domain is emptied.  The step that
\* prunes the last present value of x returns failure at once; in the
\* two-variable network with A = 2 and B's domain forced to {2} the call fails.
FCFailsAtOnce ==
  /\ [][(pc = "fc_check" /\ curdom' # curdom /\ Emptied(curdom', x))
          => (pc' = "done" /\ ~ret'.ok)]_vars
  /\ []((Done("FC") /\ NeqScenario /\ entry.curdom[2] = <<FALSE, TRUE, FALSE>>) => ~ret.ok)

\* The scenario has run: B's only value 2 was pruned and the call failed.
FCFailsAtOnceWitness ==
  /\ Done("FC") /\ NeqScenario /\ entry.curdom[2] = <<FALSE, TRUE, FALSE>>
  /\ ret.pruned = << <<2, 2>> >>
  /\ Emptied(curdom, 2)

\* Initial enforcement on the untouched pigeonhole network.
PigeonScenario ==
  /\ Done("GAC") /\ net = 2 /\ newVar = None
  /\ entry.curdom = FullMasks
  /\ entry.assignedValue = [v \in Vars |-> None]

\* C9 as stated: on the pigeonhole network (three variables, domains {1,2},
\* not-equal along the 3-cycle) prop_GAC with no variable returns failure.
PigeonFails == PigeonScenario => ~ret.ok

\* C9 as amended: there prop_GAC returns success and prunes nothing, every value
\* having support under each binary not-equal constraint.
PigeonPasses == PigeonScenario => (ret.ok /\ ret.pruned = <<>> /\ curdom = FullMasks)

\* Initial enforcement has run over all three constraints of the network.
PigeonWitness == PigeonScenario /\ entry.cons = FullCons /\ everQueued = {1, 2, 3}

Pos(v) == CHOOSE i \in 1..Len(Networks[net].vars) : Networks[net].vars[i] = v

Unassigned == {v \in Vars : assignedValue[v] = None}

MaskSize(v) == Cardinality({i \in 1..Len(dom(v)) : curdom[v][i]})

\* C10: MRV selection.  ord_mrv returns an unassigned variable of minimal
\* current-domain size, the first such in enumeration order; it returns None
\* if and only if no variable is unassigned; it changes no mask and no
\* assignment.
MRVSelects ==
  Done("MRV") =>
    /\ mrv = None <=> Unassigned = {}
    /\ mrv # None =>
         /\ mrv \in Unassigned
         /\ \A u \in Unassigned : MaskSize(mrv) <= MaskSize(u)
         /\ \A u \in Unassigned : MaskSize(u) = MaskSize(mrv) => Pos(mrv) <= Pos(u)
    /\ curdom = entry.curdom
    /\ assignedValue = entry.assignedValue

\* ord_mrv chose between two unassigned variables of the same minimal size,
\* with a larger one before them.
MRVSelectsWitness ==
  /\ Done("MRV") /\ mrv # None
  /\ \E u \in Unassigned : u # mrv /\ MaskSize(u) = MaskSize(mrv)
  /\ \E u \in Unassigned : MaskSize(u) > MaskSize(mrv) /\ Pos(u) < Pos(mrv)

\* The values a variable of the network may take.
AllValues == UNION {Range(dom(v)) : v \in Vars}

\* The complete assignments that agree with the assignments of call entry, use
\* only values of the current domains of call entry, and satisfy every
\* constraint of the network.
EntrySolutions ==
  {s \in [Vars -> AllValues] :
     /\ \A v \in Vars : in_cur_domain(entry.curdom, entry.assignedValue, v, s[v])
     /\ \A k \in 1..Len(AllCons) :
          [i \in 1..Len(get_scope(k)) |-> s[get_scope(k)[i]]] \in AllCons[k].sat_tuples}

\* C11: propagation never removes a solution.  Throughout a prop_FC or prop_GAC
\* call and on its return, every value of every solution of call entry is still
\* present in the mask of the variable it belongs to (for the variables that
\* were unassigned at entry), and on return in its current domain; so a call
\* that returns failure had no solution at entry.
SolutionsKept ==
  prop \in {"FC", "GAC"} =>
    LET sols == EntrySolutions IN
    /\ \A s \in sols : \A v \in Vars :
         entry.assignedValue[v] = None => curdom[v][value_index(v, s[v])]
    /\ pc = "done" =>
         \A s \in sols : \A v \in Vars : in_cur_domain(curdom, assignedValue, v, s[v])
    /\ (pc = "done" /\ ~ret.ok) => sols = {}

\* A call has pruned values of two variables and left a solution standing.
SolutionsKeptWitness ==
  /\ pc = "done" /\ prop \in {"FC", "GAC"} /\ ret.ok
  /\ \E i, j \in 1..Len(ret.pruned) : ret.pruned[i][1] # ret.pruned[j][1]
  /\ EntrySolutions # {}

\* C12: dead-end exactness for GAC.  prop_GAC returns failure if and only if,
\* after its pruning, an unassigned scope variable of a constraint it dequeued
\* has no value left in its mask (values pruned by earlier calls counting as
\* absent); and the step that ends the scan of such a variable returns the
\* failure at once, no further variable or constraint being examined.
GACDeadEndExact ==
  /\ [](Done("GAC") =>
          (~ret.ok <=>
             \E k \in dequeued : \E v \in Range(get_scope(k)) :
               ~is_assigned(assignedValue, v) /\ Emptied(curdom, v)))
  /\ [][(/\ pc = "gac_val"
         /\ var_idx > Len(curdom[get_scope(c)[vi]])
         /\ Emptied(curdom, get_scope(c)[vi]))
          => (pc' = "done" /\ ~ret'.ok /\ c \in dequeued /\ curdom' = curdom)]_vars

\* A GAC call failed on a variable whose last value it pruned itself, other
\* values of it having been pruned before the call, with work left on the
\* worklist.
GACDeadEndExactWitness ==
  /\ Done("GAC") /\ ~ret.ok
  /\ ret.pruned # <<>>
  /\ \E v \in Vars :
       /\ Emptied(curdom, v)
       /\ ret.pruned[Len(ret.pruned)][1] = v
       /\ \E i \in 1..Len(dom(v)) : ~entry.curdom[v][i]
  /\ dequeued # everQueued

\* The variable whose mask prop_GAC is scanning.
ScannedVar == get_scope(c)[vi]

\* The step is a prune made by prop_GAC.
GACPruneStep == pc = "gac_val" /\ pruned_all' # pruned_all /\ pc' = "gac_val"

\* C13: re-examination after a prune.  Right after the enqueue step that follows
\* a prune of a value of v, every constraint of the network that references v
\* is on the worklist; a constraint leaves the worklist only by being dequeued
\* for examination; and prop_GAC returns success only from the loop test, with
\* the worklist empty.
ReexaminedAfterPrune ==
  /\ [][GACPruneStep =>
          \A k \in 1..Len(AllCons) :
            ScannedVar \in Range(get_scope(k)) => k \in Range(constraint_queue')]_vars
  /\ [][(prop = "GAC" /\ pc # "done" /\ pc' # "done") =>
          \A k \in Range(constraint_queue) :
            k \notin Range(constraint_queue') => (pc = "gac_while" /\ c' = k)]_vars
  /\ [][(prop = "GAC" /\ pc # "done" /\ pc' = "done" /\ ret'.ok) =>
          (pc = "gac_while" /\ constraint_queue = <<>>)]_vars

\* prop_GAC has just pruned a value of a variable that two constraints
\* reference, the one being processed among them, and both are on the worklist.
ReexaminedAfterPruneWitness ==
  /\ pc = "gac_val" /\ var_idx > 1 /\ pruned_all # <<>>
  /\ pruned_all[Len(pruned_all)] = <<ScannedVar, dom(ScannedVar)[var_idx - 1]>>
  /\ Len(get_cons_with_var(ScannedVar)) >= 2
  /\ Range(get_cons_with_var(ScannedVar)) \subseteq Range(constraint_queue)

\* How many times constraint k stands on the worklist q.
Occurrences(q, k) == Cardinality({i \in 1..Len(q) : q[i] = k})

\* C14: the constraint being processed is skipped.  A prune made by prop_GAC
\* while it processes the dequeued constraint c never puts c itself on the
\* worklist.
NoSelfEnqueue ==
  [][GACPruneStep => Occurrences(constraint_queue', c) = Occurrences(constraint_queue, c)]_vars

\* C15: worklist deduplication.  At every point of a prop_GAC call the worklist
\* holds each constraint at most once.
WorklistDeduplicated == prop = "GAC" => NoDuplicates(constraint_queue)

\* C16: termination of GAC.  Every prop_GAC call that has begun eventually
\* returns; a step of the call lengthens the worklist only if it prunes; and
\* the call prunes no (variable, value) pair twice.
GACTerminates ==
  /\ (prop = "GAC" /\ ~Between) ~> (Done("GAC"))
  /\ [][(prop = "GAC" /\ ~Between /\ Len(constraint_queue') > Len(constraint_queue))
          => GACPruneStep]_vars
  /\ [](prop = "GAC" => NoDuplicates(pruneLog))

\* A GAC call for a variable has returned success after its prunes put on the
\* worklist constraints that were not there at the start.
GACTerminatesWitness ==
  /\ Done("GAC") /\ ret.ok /\ newVar # None
  /\ ret.pruned # <<>>
  /\ everQueued # Range(get_cons_with_var(newVar))
  /\ dequeued = everQueued

\* C17: propagators leave the network's constraint collection untouched.  When
\* a call of prop_BT, prop_FC or prop_GAC has returned, the network's list of
\* all constraints is the list of call entry.
ConstraintsUntouched ==
  (pc = "done" /\ prop \in {"BT", "FC", "GAC"}) => cons = entry.cons

\* C18: propagators leave assignments untouched.  Whenever a call of prop_BT,
\* prop_FC or prop_GAC has returned, by whatever path, every variable is
\* assigned or unassigned as at call entry, with the same value.  During a
\* call the assignments differ from those of entry only between lines 113 and
\* 118 of prop_FC, where x holds the value being tried; x is unassigned again
\* before the check that may prune or return.
AssignmentsUntouched ==
  /\ pc # "fc_scope" => assignedValue = entry.assignedValue
  /\ pc = "fc_scope" =>
       /\ entry.assignedValue[x] = None
       /\ assignedValue = [entry.assignedValue EXCEPT ![x] = x_domain[xi]]

\* prop_FC has failed after a prune, called with a variable assigned and the
\* pruned variable unassigned as before.
AssignmentsUntouchedWitness ==
  /\ Done("FC") /\ ~ret.ok /\ ret.pruned # <<>>
  /\ \E v \in Vars : assignedValue[v] # None
  /\ assignedValue[ret.pruned[Len(ret.pruned)][1]] = None

\* The cells of an n-board.
Cells(n) == (1..n) \X (1..n)

\* The complete assignment a satisfies every constraint of the list.
Satisfies(model, a) ==
  \A k \in 1..Len(model) :
    [i \in 1..Len(model[k].scope) |-> a[model[k].scope[i]]] \in model[k].sat_tuples

\* C19: the two Futoshiki models are equivalent.  For a well-formed grid, a
\* complete assignment of values 1..n to the cells satisfies all constraints
\* built by futoshiki_csp_model_1 if and only if it satisfies all constraints
\* built by futoshiki_csp_model_2.
ModelsEquivalent ==
  built = {1, 2} =>
    \A a \in [Cells(board_size(futo_grid)) -> 1..board_size(futo_grid)] :
      Satisfies(model_1, a) <=> Satisfies(model_2, a)

\* Both models of a 3-board with an inequality have been built; an assignment
\* satisfies both, and another fails one all-different constraint of a column
\* while every row is a permutation.
ModelsEquivalentWitness ==
  /\ built = {1, 2}
  /\ board_size(futo_grid) = 3
  /\ \E row_idx \in 1..3 : \E col_idx \in 1..2 : futo_grid[row_idx][2 * col_idx] = "<"
  /\ \E a \in [Cells(3) -> 1..3] : Satisfies(model_1, a) /\ Satisfies(model_2, a)
  /\ \E a \in [Cells(3) -> 1..3] :
       /\ \A row_idx \in 1..3 : {a[<<row_idx, col_idx>>] : col_idx \in 1..3} = 1..3
       /\ ~Satisfies(model_2, a)

====
